---- MODULE Spec2Model ----
(***************************************************************************)
(* StructuraLog: a structured logger (StructuraLogger) with an optional    *)
(* asynchronous delivery pipeline (QueueHandler + QueueListener), a        *)
(* heartbeat thread and a job-scope context manager (JobLogger).           *)
(* The model follows src/src/structura_log/core.py.                        *)
(***************************************************************************)
EXTENDS Integers, Sequences, FiniteSets, TLC

\* ---------------------------------------------------------------- bounds
MaxCalls == 3      \* calls of StructuraLogger.log, by any thread
MaxTasks == 2      \* heartbeat threads that may be spawned
MaxScopes == 2     \* JobLogger objects
MaxSinks == 2      \* handlers supplied in synchronous mode
MaxShutdowns == 2  \* calls of shutdown

\* ------------------------------------------------------ program constants
DEBUG == 10
INFO == 20
WARNING == 30
ERROR == 40

Levels == {DEBUG, INFO, WARNING, ERROR}
None == 0
HandlersNone == -1   \* handlers=None, as distinct from a list of length 0
Sentinel == [n |-> 0]
SuppliedJobId == 101
SuppliedTraceId == 201
EmptyTraceId == -1   \* the empty string: supplied, not None, false in a condition
InitialIds == {<<None, None>>, <<None, SuppliedTraceId>>,
               <<SuppliedJobId, EmptyTraceId>>}
Scopes == 1..MaxScopes
Tasks == 1..MaxTasks
Peers == {1, 2}
Errors == {[type |-> "ValueError", msg |-> "Simulated processing error"],
           [type |-> "KeyError", msg |-> "missing"]}
NoError == [type |-> "none", msg |-> ""]
FinalItems == {<<"records_processed", 100>>, <<"records_processed", 200>>,
               <<"duration_ms", 100>>}
\* final data under names that job_completed and log use themselves
ReservedItems == {<<"records_processed", 100>>, <<"duration_ms", 100>>,
                  <<"job_id", 7>>, <<"level", DEBUG>>, <<"level", ERROR>>}
EmptyMap == [k \in {} |-> 0]
NoString == "None"    \* None where a string is expected: an argument left out, a
                      \* variable missing from the environment
Hostname == "host"    \* socket.gethostname()
Givens == [service_name : {NoString, "", "svc"}, worker_id : {NoString, "wrk"},
           SERVICE : {NoString, "env-svc"}, POD_NAME : {NoString, "env-pod"}]
Elapsed == {2}

VARIABLES
    given,           \* what the constructor finds: the arguments service_name and
                     \* worker_id and the environment variables SERVICE and POD_NAME
    service_name,    \* self.service_name
    worker_id,       \* self.worker_id
    handlers,        \* the constructor's handlers argument: HandlersNone or its length
    mode,            \* "async" (handlers is None) or "sync" (handlers supplied)
    nSinks,          \* number of attached handlers
    minLevel,        \* self.logger level
    stopGuarded,     \* whether the runtime's QueueListener.stop tolerates a second call
    sinkKind,        \* "healthy", "broken" (writes may fail, the handler reports them
                     \* through handleError) or "raising" (writes may fail, the
                     \* supplied handler's emit lets the error out)
    queue,           \* self._log_queue
    consumerPc,      \* the QueueListener thread: "running", "done" or "absent"
    listenerThread,  \* QueueListener._thread is not None
    written,         \* every handler write, in order: [sink, rec, ok]
    calls,           \* every call of self.logger.log, in order
    hbThread,        \* self._heartbeat_thread (a task id, or None)
    hbEvent,         \* self._heartbeat_stop_event (an event id, or None)
    setEvents,       \* the events that are set
    taskPc,          \* each heartbeat thread's position
    taskEv,          \* the event each heartbeat thread is waiting on
    pc,              \* the caller thread's position inside a multi-step call
    inShutdown,      \* stop_heartbeat_thread was called by shutdown
    ret,             \* the caller's last completed call on the logger and how it ended
    mark,            \* number of calls of log made when shutdown was last called
    sc,              \* the JobLogger objects, constructed ("new") or not ("absent");
                     \* out: what left the with statement
    minted,          \* ids generated so far
    shutdownCalls,   \* calls of shutdown so far
    peers            \* further threads that call start_heartbeat_thread or
                     \* stop_heartbeat_thread at the same time: where each is in
                     \* its call, the thread object it created, how its call ended

vars == <<given, service_name, worker_id, handlers, mode, nSinks, minLevel,
          stopGuarded, sinkKind, queue, consumerPc, listenerThread,
          written, calls, hbThread, hbEvent, setEvents, taskPc, taskEv, pc,
          inShutdown, ret, mark, sc, minted, shutdownCalls, peers>>

config == <<given, service_name, worker_id, handlers, mode, nSinks, minLevel, stopGuarded, sinkKind>>
pipeline == <<queue, consumerPc, listenerThread, written>>
heart == <<hbThread, hbEvent, setEvents, taskPc, taskEv>>

\* ------------------------------------------------------------- helpers
Merge(over, base) == over @@ base

\* the truth value of an id in a condition
Truthy(x) == x \notin {None, EmptyTraceId}

CallsLeft == Len(calls) < MaxCalls

\* StructuraLogger.log: the record handed to self.logger.log
LogRecord(event, msg, status, job_id, trace_id, level, kwargs, src, scope) ==
    LET extra_fields == Merge(kwargs, [service |-> service_name, worker_id |-> worker_id,
                                       job_id |-> job_id, event |-> event,
                                       status |-> status])
    IN [n |-> Len(calls) + 1,
        level |-> level,
        msg |-> msg,
        fields |-> IF Truthy(trace_id)
                   THEN Merge([trace_id |-> trace_id], extra_fields)
                   ELSE extra_fields,
        src |-> src,
        scope |-> scope]

IsEnabledFor_Strict(level) == level > minLevel

IsEnabledFor_Off(level) == TRUE

\* logging.Logger.isEnabledFor
IsEnabledFor(level) == level >= minLevel

\* the sets of handlers whose write of one record may fail
SinkFailures ==
    IF sinkKind = "healthy" THEN {{}} ELSE SUBSET (1..nSinks)

\* a failed write leaves the handler as an exception
HandlerRaises(i, fails) == sinkKind = "raising" /\ i \in fails

\* logging.Logger.callHandlers: one handler write per attached handler, in
\* attachment order, up to the first handler that raises
RECURSIVE WriteFrom(_, _, _)
WriteFrom(i, r, fails) ==
    IF i > nSinks THEN <<>>
    ELSE <<[sink |-> i, rec |-> r, ok |-> i \notin fails]>>
         \o (IF HandlerRaises(i, fails) THEN <<>> ELSE WriteFrom(i + 1, r, fails))

CallHandlers_FirstOnly(r, fails) ==
    IF nSinks = 0 THEN <<>> ELSE <<[sink |-> 1, rec |-> r, ok |-> TRUE]>>

\* with no handler attached the record is written nowhere (a record at WARNING
\* or above goes to logging.lastResort, on stderr, which is no sink of the logger)
CallHandlers(r, fails) == WriteFrom(1, r, fails)

Enqueue_Front(q, r) == <<r>> \o q

\* queue.Queue.put_nowait: the item goes to the end of the queue
Enqueue(q, r) == Append(q, r)

QueueFull_Bounded(q) == Len(q) >= 2

\* queue.Queue(-1): a maxsize of zero or less is an unbounded queue
QueueFull(q) == FALSE

\* attribute names of logging.LogRecord that extra must not overwrite
LogRecordAttrs == {"name", "message", "asctime"}

\* logging.Logger.makeRecord: KeyError("Attempt to overwrite ... in LogRecord")
MakeRecordRaises(r) == DOMAIN r.fields \cap LogRecordAttrs # {}

\* how self.logger.log ends: makeRecord is reached only by an enabled call, and
\* in synchronous mode the handlers run on the caller's thread
LogOutcome(r, fails) ==
    IF ~IsEnabledFor(r.level) THEN "none"
    ELSE IF MakeRecordRaises(r) THEN "KeyError"
    ELSE IF mode = "sync" /\ \E i \in fails : HandlerRaises(i, fails) THEN "OSError"
    ELSE "none"

\* self.logger.log(level, msg, extra=extra_fields)
LoggerLog(r, fails) ==
    /\ calls' = Append(calls, r)
    /\ IF IsEnabledFor(r.level) /\ ~MakeRecordRaises(r)
       THEN IF mode = "async"
            THEN /\ queue' = (IF QueueFull(queue) THEN queue ELSE Enqueue(queue, r))
                 /\ UNCHANGED written
            ELSE /\ written' = written \o CallHandlers(r, fails)
                 /\ UNCHANGED queue
       ELSE UNCHANGED <<queue, written>>

\* self.logger.log from a method that is used with handlers that let no error out
Log(r) == \E fails \in SinkFailures : LoggerLog(r, fails)

Returned(op, exc) == [op |-> op, exc |-> exc]

\* a or b
Or(a, b) == IF a \in {NoString, ""} THEN b ELSE a

\* os.getenv(name, default)
GetEnv(value, default) == IF value = NoString THEN default ELSE value

\* ---------------------------------------------------------------- Init
\* the constructor was given both names and the environment has neither variable
Named ==
    given = [service_name |-> "svc", worker_id |-> "wrk", SERVICE |-> NoString,
             POD_NAME |-> NoString]

\* one JobLogger object was constructed
OneScope == \A s \in Scopes : s > 1 => sc[s].phase = "absent"

\* StructuraLogger.__init__ and JobLogger.__init__
Init ==
    /\ given \in Givens
    /\ service_name = Or(given.service_name, GetEnv(given.SERVICE, "my-service"))
    /\ worker_id = Or(given.worker_id, GetEnv(given.POD_NAME, Hostname))
    /\ handlers \in {HandlersNone} \cup (0..MaxSinks)
    /\ mode = (IF handlers = HandlersNone THEN "async" ELSE "sync")
    /\ nSinks = (IF handlers = HandlersNone THEN 1 ELSE handlers)
    /\ minLevel \in Levels
    /\ stopGuarded \in BOOLEAN
    /\ (mode = "sync") => stopGuarded
    /\ sinkKind \in {"healthy", "broken", "raising"}
    /\ (mode = "async") => (sinkKind # "raising")
    /\ queue = <<>>
    /\ consumerPc = IF mode = "async" THEN "running" ELSE "absent"
    /\ listenerThread = (mode = "async")
    /\ written = <<>>
    /\ calls = <<>>
    /\ hbThread = None
    /\ hbEvent = None
    /\ setEvents = {}
    /\ taskPc = [t \in Tasks |-> "unborn"]
    /\ taskEv = [t \in Tasks |-> None]
    /\ pc = "idle"
    /\ inShutdown = FALSE
    /\ ret = [op |-> "init", exc |-> "none"]
    /\ mark = 0
    /\ sc \in [Scopes -> {[phase |-> ph, initial |-> ids, job_id |-> None,
                             trace_id |-> None, final |-> EmptyMap, body |-> 0,
                             err |-> NoError, out |-> "none", first |-> 0,
                             last |-> 0] : ph \in {"new", "absent"},
                                           ids \in InitialIds}]
    /\ sc[1].phase = "new"
    /\ \A s \in Scopes :
           sc[s].phase = "absent" =>
               /\ sc[s].initial = <<None, None>>
               /\ \A s2 \in Scopes : s2 > s => sc[s2].phase = "absent"
    /\ minted = 0
    /\ shutdownCalls = 0
    /\ peers = [p \in Peers |-> [pc |-> "idle", id |-> None, exc |-> "none"]]

\* ------------------------------------------------- leveled log methods
LevelStatus(level) ==
    CASE level = DEBUG -> "debug"
      [] level = INFO -> "info"
      [] level = WARNING -> "warning"
      [] level = ERROR -> "error"

\* keyword fields a caller passes to info / warning / error / debug
CallerFields == {EmptyMap, [component |-> "api"], [service |-> "other"],
                 [status |-> "x"], [name |-> "x"]}

\* the leveled methods bind event and msg and pass status and level to log
\* themselves: the same keyword once more is a TypeError
LeveledRaises(kwargs) == DOMAIN kwargs \cap {"event", "msg", "status", "level"} # {}

\* StructuraLogger.info / warning / error / debug
LogCall(level, kwargs) ==
    /\ pc = "idle"
    /\ CallsLeft
    /\ IF LeveledRaises(kwargs)
       THEN /\ ret' = Returned("log", "TypeError")
            /\ UNCHANGED <<calls, queue, written>>
       ELSE LET r == LogRecord("user_event", "message", LevelStatus(level), None,
                               None, level, kwargs, "caller", 0)
            IN \E fails \in SinkFailures :
                   /\ LoggerLog(r, fails)
                   /\ ret' = Returned("log", LogOutcome(r, fails))
    /\ UNCHANGED <<config, peers, consumerPc, listenerThread, heart, pc, inShutdown, mark,
                   sc, minted, shutdownCalls>>

\* --------------------------------------------------- contrib.fastapi
NoDuration == -1   \* duration_ms=None, the default
DurationInputs == {NoDuration, 0, 25, 1000, 1001, 1200}

\* the truth value of duration_ms in a condition
Supplied(duration_ms) == duration_ms \notin {NoDuration, 0}

\* db_query: level = WARNING if duration_ms and duration_ms > 1000 else DEBUG
DbQueryLevel(duration_ms) ==
    IF Supplied(duration_ms) /\ duration_ms > 1000 THEN WARNING ELSE DEBUG

DbQueryStatus_Inclusive(duration_ms) ==
    IF Supplied(duration_ms) /\ duration_ms >= 1000 THEN "slow" ELSE "ok"

\* db_query: status="slow" if duration_ms and duration_ms > 1000 else "ok"
DbQueryStatus(duration_ms) ==
    IF Supplied(duration_ms) /\ duration_ms > 1000 THEN "slow" ELSE "ok"

\* db_query: the record, for a query on a table with no ids given
DbQueryRecord(duration_ms) ==
    LogRecord("db_query", "DB SELECT on users", DbQueryStatus(duration_ms), None, None,
              DbQueryLevel(duration_ms),
              [request_id |-> None, query_type |-> "SELECT", table |-> "users",
               duration_ms |-> duration_ms],
              "caller", 0)

\* structura_log.contrib.fastapi.db_query
DbQuery(duration_ms) ==
    /\ pc = "idle"
    /\ CallsLeft
    /\ Log(DbQueryRecord(duration_ms))
    /\ ret' = Returned("db_query", "none")
    /\ UNCHANGED <<config, peers, consumerPc, listenerThread, heart, pc, inShutdown, mark,
                   sc, minted, shutdownCalls>>

\* ------------------------------------------------------------ consumer
QueueGet_Lifo(q) == [item |-> q[Len(q)], rest |-> SubSeq(q, 1, Len(q) - 1)]

\* queue.Queue.get: first in, first out
QueueGet(q) == [item |-> Head(q), rest |-> Tail(q)]

\* QueueListener._monitor: one iteration
ConsumerStep ==
    /\ consumerPc = "running"
    /\ queue # <<>>
    /\ queue' = QueueGet(queue).rest
    /\ IF QueueGet(queue).item = Sentinel
       THEN /\ consumerPc' = "done"
            /\ UNCHANGED written
       ELSE /\ \E fails \in SinkFailures :
                   written' = written \o CallHandlers(QueueGet(queue).item, fails)
            /\ UNCHANGED consumerPc
    /\ UNCHANGED <<config, peers, listenerThread, calls, heart, pc, inShutdown, ret, mark,
                   sc, minted, shutdownCalls>>

\* ----------------------------------------------------------- heartbeat
IsAlive(t) == t # None /\ taskPc[t] \notin {"unborn", "done"}
Spawned == {t \in Tasks : taskPc[t] # "unborn"}
AliveTasks == {t \in Tasks : IsAlive(t)}

\* StructuraLogger.heartbeat
HeartbeatRecord ==
    LogRecord("heartbeat", "Worker alive", "healthy", None, None, INFO, EmptyMap,
              "task", 0)

\* _emit_heartbeat: evaluate self._heartbeat_stop_event and block in wait(interval)
TaskEval(t) ==
    /\ taskPc[t] = "eval"
    /\ taskEv' = [taskEv EXCEPT ![t] = hbEvent]
    /\ taskPc' = [taskPc EXCEPT ![t] = "wait"]
    /\ UNCHANGED <<config, peers, pipeline, calls, hbThread, hbEvent, setEvents, pc,
                   inShutdown, ret, mark, sc, minted, shutdownCalls>>

WaitReturns_Always(t) == TRUE

\* threading.Event.wait(interval): True when the event is set, False once the
\* interval has elapsed without it
WaitReturns(t) == taskEv[t] \in setEvents

\* _emit_heartbeat: while not self._heartbeat_stop_event.wait(interval)
TaskWait(t) ==
    /\ taskPc[t] = "wait"
    /\ taskPc' = [taskPc EXCEPT ![t] = IF WaitReturns(t) THEN "done" ELSE "emit"]
    /\ UNCHANGED <<config, peers, pipeline, calls, hbThread, hbEvent, setEvents, taskEv, pc,
                   inShutdown, ret, mark, sc, minted, shutdownCalls>>

\* _emit_heartbeat: self.heartbeat()
TaskEmit(t) ==
    /\ taskPc[t] = "emit"
    /\ CallsLeft
    /\ Log(HeartbeatRecord)
    /\ taskPc' = [taskPc EXCEPT ![t] = "eval"]
    /\ UNCHANGED <<config, peers, consumerPc, listenerThread, hbThread, hbEvent, setEvents,
                   taskEv, pc, inShutdown, ret, mark, sc, minted, shutdownCalls>>

\* start_heartbeat_thread: the guard
StartIsNoOp == hbThread # None /\ IsAlive(hbThread)

\* start_heartbeat_thread up to self._heartbeat_thread.start()
StartCall ==
    /\ pc = "idle"
    /\ ~StartIsNoOp => CallsLeft
    /\ IF StartIsNoOp
       THEN /\ ret' = Returned("start", "none")
            /\ UNCHANGED <<heart, pc>>
       ELSE /\ Cardinality(Spawned) < MaxTasks
            /\ LET t == Cardinality(Spawned) + 1
               IN /\ hbEvent' = t
                  /\ hbThread' = t
                  /\ taskPc' = [taskPc EXCEPT ![t] = "eval"]
            /\ pc' = "start_log"
            /\ UNCHANGED <<setEvents, taskEv, ret>>
    /\ UNCHANGED <<config, peers, pipeline, calls, inShutdown, mark, sc, minted, shutdownCalls>>

\* start_heartbeat_thread: self.info("heartbeat_started", ...)
StartLog ==
    /\ pc = "start_log"
    /\ Log(LogRecord("heartbeat_started", "Heartbeat thread started", "info",
                     None, None, INFO, EmptyMap, "caller", 0))
    /\ pc' = "idle"
    /\ ret' = Returned("start", "none")
    /\ UNCHANGED <<config, peers, consumerPc, listenerThread, heart, inShutdown, mark, sc,
                   minted, shutdownCalls>>

\* stop_heartbeat_thread: the guard
StopApplies == hbThread # None /\ IsAlive(hbThread)

\* stop_heartbeat_thread up to self._heartbeat_stop_event.set()
StopSignal(fromShutdown) ==
    /\ pc = "idle"
    /\ StopApplies => CallsLeft
    /\ inShutdown' = fromShutdown
    /\ IF StopApplies
       THEN /\ setEvents' = IF hbEvent # None THEN setEvents \cup {hbEvent}
                                              ELSE setEvents
            /\ pc' = "stop_log"
            /\ UNCHANGED ret
       ELSE /\ UNCHANGED setEvents
            /\ IF fromShutdown
               THEN pc' = "sd_stop" /\ UNCHANGED ret
               ELSE pc' = "idle" /\ ret' = Returned("stop", "none")
    /\ UNCHANGED <<config, peers, pipeline, calls, hbThread, hbEvent, taskPc, taskEv, sc,
                   minted>>

StopCall ==
    /\ StopSignal(FALSE)
    /\ UNCHANGED <<mark, shutdownCalls>>

\* shutdown: self.stop_heartbeat_thread()
ShutdownCall ==
    /\ shutdownCalls < MaxShutdowns
    /\ shutdownCalls' = shutdownCalls + 1
    /\ mark' = Len(calls)
    /\ StopSignal(TRUE)

\* stop_heartbeat_thread: self.info("heartbeat_stopped", ...)
StopLog ==
    /\ pc = "stop_log"
    /\ Log(LogRecord("heartbeat_stopped", "Heartbeat thread stopped.", "info",
                     None, None, INFO, EmptyMap, "caller", 0))
    /\ pc' = "stop_join"
    /\ UNCHANGED <<config, peers, consumerPc, listenerThread, heart, inShutdown, ret, mark,
                   sc, minted, shutdownCalls>>

\* join(timeout=1.0) returns when the thread has ended or the timeout expired
JoinReturns(t, timedOut) == timedOut \/ ~IsAlive(t)

\* stop_heartbeat_thread: join(timeout=1.0); self._heartbeat_thread = None
StopJoin(timedOut) ==
    /\ pc = "stop_join"
    /\ JoinReturns(hbThread, timedOut)
    /\ timedOut => IsAlive(hbThread)
    /\ hbThread' = None
    /\ IF inShutdown
       THEN pc' = "sd_stop" /\ UNCHANGED ret
       ELSE pc' = "idle" /\ ret' = Returned("stop", "none")
    /\ UNCHANGED <<config, peers, pipeline, calls, hbEvent, setEvents, taskPc, taskEv,
                   inShutdown, mark, sc, minted, shutdownCalls>>

\* ------------------------------------- the heartbeat calls, statement by statement
\* what a call of a peer thread leaves alone
PeerFrame == <<config, consumerPc, listenerThread, pc, inShutdown, ret, mark, sc,
               minted, shutdownCalls>>

PeerGoes(p, to) == peers' = [peers EXCEPT ![p].pc = to]
PeerRaises(p, exc) == peers' = [peers EXCEPT ![p].pc = "done", ![p].exc = exc]

\* the thread objects not yet created
FreshIds == Tasks \ (Spawned \cup {peers[x].id : x \in Peers})

\* start_heartbeat_thread: if ... is_alive(): return
PeerStartGuard(p) ==
    /\ peers[p].pc = "idle"
    /\ ~StartIsNoOp => CallsLeft
    /\ PeerGoes(p, IF StartIsNoOp THEN "done" ELSE "start_event")
    /\ UNCHANGED <<PeerFrame, queue, written, calls, heart>>

\* start_heartbeat_thread: self._heartbeat_stop_event = threading.Event()
PeerStartEvent(p) ==
    /\ peers[p].pc = "start_event"
    /\ FreshIds # {}
    /\ LET id == CHOOSE x \in FreshIds : \A y \in FreshIds : x <= y
       IN /\ hbEvent' = id
          /\ peers' = [peers EXCEPT ![p].pc = "start_thread", ![p].id = id]
    /\ UNCHANGED <<PeerFrame, queue, written, calls, hbThread, setEvents, taskPc,
                   taskEv>>

\* start_heartbeat_thread: self._heartbeat_thread = threading.Thread(...)
PeerStartThread(p) ==
    /\ peers[p].pc = "start_thread"
    /\ hbThread' = peers[p].id
    /\ PeerGoes(p, "start_run")
    /\ UNCHANGED <<PeerFrame, queue, written, calls, hbEvent, setEvents, taskPc,
                   taskEv>>

\* start_heartbeat_thread: self._heartbeat_thread.start(), on the thread object
\* the attribute holds now; a thread can only be started once
PeerStartRun(p) ==
    /\ peers[p].pc = "start_run"
    /\ IF hbThread = None
       THEN PeerRaises(p, "AttributeError") /\ UNCHANGED taskPc
       ELSE IF taskPc[hbThread] # "unborn"
            THEN PeerRaises(p, "RuntimeError") /\ UNCHANGED taskPc
            ELSE /\ taskPc' = [taskPc EXCEPT ![hbThread] = "eval"]
                 /\ PeerGoes(p, "start_log")
    /\ UNCHANGED <<PeerFrame, queue, written, calls, hbThread, hbEvent, setEvents,
                   taskEv>>

\* start_heartbeat_thread: self.info("heartbeat_started", ...)
PeerStartLog(p) ==
    /\ peers[p].pc = "start_log"
    /\ Log(LogRecord("heartbeat_started", "Heartbeat thread started", "info",
                     None, None, INFO, EmptyMap, "caller", 0))
    /\ PeerGoes(p, "done")
    /\ UNCHANGED <<PeerFrame, heart>>

\* stop_heartbeat_thread: if self._heartbeat_thread and ... is_alive():
PeerStopGuard(p) ==
    /\ peers[p].pc = "idle"
    /\ StopApplies => CallsLeft
    /\ PeerGoes(p, IF StopApplies THEN "stop_set" ELSE "done")
    /\ UNCHANGED <<PeerFrame, queue, written, calls, heart>>

\* stop_heartbeat_thread: if self._heartbeat_stop_event: ... .set()
PeerStopSet(p) ==
    /\ peers[p].pc = "stop_set"
    /\ setEvents' = IF hbEvent # None THEN setEvents \cup {hbEvent} ELSE setEvents
    /\ PeerGoes(p, "stop_log")
    /\ UNCHANGED <<PeerFrame, queue, written, calls, hbThread, hbEvent, taskPc,
                   taskEv>>

\* stop_heartbeat_thread: self.info("heartbeat_stopped", ...)
PeerStopLog(p) ==
    /\ peers[p].pc = "stop_log"
    /\ Log(LogRecord("heartbeat_stopped", "Heartbeat thread stopped.", "info",
                     None, None, INFO, EmptyMap, "caller", 0))
    /\ PeerGoes(p, "stop_join")
    /\ UNCHANGED <<PeerFrame, heart>>

\* stop_heartbeat_thread: self._heartbeat_thread.join(timeout=1.0), on what the
\* attribute holds now; self._heartbeat_thread = None
PeerStopJoin(p, timedOut) ==
    /\ peers[p].pc = "stop_join"
    /\ IF hbThread = None
       THEN PeerRaises(p, "AttributeError") /\ UNCHANGED hbThread
       ELSE /\ JoinReturns(hbThread, timedOut)
            /\ timedOut => IsAlive(hbThread)
            /\ hbThread' = None
            /\ PeerGoes(p, "done")
    /\ UNCHANGED <<PeerFrame, queue, written, calls, hbEvent, setEvents, taskPc,
                   taskEv>>

\* --------------------------------------------------- shutdown / flush
\* QueueListener.stop: whether the call does anything
ListenerStopActs == listenerThread \/ ~stopGuarded

\* shutdown: if self._queue_listener: self._queue_listener.stop()
\* QueueListener.stop: enqueue_sentinel(), then self._thread.join()
ListenerStop ==
    /\ pc = "sd_stop"
    /\ IF mode = "sync" \/ ~ListenerStopActs
       THEN /\ pc' = "idle"
            /\ ret' = Returned("shutdown", "none")
            /\ UNCHANGED queue
       ELSE /\ queue' = Append(queue, Sentinel)
            /\ IF listenerThread
               THEN pc' = "sd_join" /\ UNCHANGED ret
               ELSE pc' = "idle" /\ ret' = Returned("shutdown", "AttributeError")
    /\ UNCHANGED <<config, peers, consumerPc, listenerThread, written, calls, heart,
                   inShutdown, mark, sc, minted, shutdownCalls>>

ThreadJoined_NoWait(threadPc) == TRUE

\* threading.Thread.join without timeout returns once the thread has ended
ThreadJoined(threadPc) == threadPc = "done"

\* QueueListener.stop: self._thread.join() returns; self._thread = None
ListenerJoin ==
    /\ pc = "sd_join"
    /\ ThreadJoined(consumerPc)
    /\ listenerThread' = FALSE
    /\ pc' = "idle"
    /\ ret' = Returned("shutdown", "none")
    /\ UNCHANGED <<config, peers, queue, consumerPc, written, calls, heart, inShutdown,
                   mark, sc, minted, shutdownCalls>>

\* force_flush: QueueListener has no flush method
FlushOutcome == IF mode = "sync" THEN "none" ELSE "AttributeError"

\* StructuraLogger.force_flush
ForceFlush ==
    /\ pc = "idle"
    /\ ret' = Returned("flush", FlushOutcome)
    /\ UNCHANGED <<config, peers, pipeline, calls, heart, pc, inShutdown, mark, sc, minted,
                   shutdownCalls>>

\* ---------------------------------------------------------- job scopes
\* job_started: the ids it returns (generated when not supplied)
JobStartedIds(jid, tid) ==
    LET job == IF jid = None THEN minted + 1 ELSE jid
        used == IF jid = None THEN minted + 1 ELSE minted
    IN [job_id |-> job,
        trace_id |-> IF tid = None THEN used + 1 ELSE tid,
        minted |-> IF tid = None THEN used + 1 ELSE used]

\* job_started: the start record
JobStartedRecord(s, ids) ==
    LogRecord("data_processing", "Job started", "running", ids.job_id, ids.trace_id,
              INFO, EmptyMap, "caller", s)

\* JobLogger.__enter__ (the object can be entered again once it has been left)
Enter(s) ==
    /\ pc = "idle"
    /\ CallsLeft
    /\ sc[s].phase \in {"new", "exited"}
    /\ LET ids == JobStartedIds(sc[s].initial[1], sc[s].initial[2])
       IN /\ Log(JobStartedRecord(s, ids))
          /\ sc' = [sc EXCEPT ![s].phase = "open", ![s].job_id = ids.job_id,
                              ![s].trace_id = ids.trace_id, ![s].body = 0,
                              ![s].err = NoError, ![s].out = "none",
                              ![s].first = Len(calls) + 1, ![s].last = 0]
          /\ minted' = ids.minted
    /\ UNCHANGED <<config, peers, consumerPc, listenerThread, heart, pc, inShutdown, ret,
                   mark, shutdownCalls>>

\* job_progress: the message
JobProgressMsg(progress) ==
    IF progress # None THEN "Job progress: 50%" ELSE "Job in progress"

\* JobLogger.progress / info / warning / debug
ScopeRecord(s, kind) ==
    CASE kind = "progress" ->
           LogRecord("job_progress", JobProgressMsg(50), "running", sc[s].job_id,
                     sc[s].trace_id, INFO, [step |-> "step_A", progress |-> 50],
                     "caller", s)
      [] kind = "info" ->
           LogRecord("step", "message", "info", sc[s].job_id, sc[s].trace_id, INFO,
                     EmptyMap, "caller", s)
      [] kind = "warning" ->
           LogRecord("step", "message", "warning", sc[s].job_id, sc[s].trace_id,
                     WARNING, EmptyMap, "caller", s)
      [] kind = "debug" ->
           LogRecord("step", "message", "debug", sc[s].job_id, sc[s].trace_id, DEBUG,
                     EmptyMap, "caller", s)

ScopeKinds == {"progress", "info", "warning", "debug"}

\* the methods do not look at whether the scope is open: after __exit__ they
\* log as before, with the ids still stored on the object
ScopeLog(s, kind) ==
    /\ pc = "idle"
    /\ CallsLeft
    /\ sc[s].phase \in {"open", "exited"}
    /\ Log(ScopeRecord(s, kind))
    /\ sc' = [sc EXCEPT ![s].body = IF sc[s].phase = "open" THEN @ + 1 ELSE @]
    /\ UNCHANGED <<config, peers, consumerPc, listenerThread, heart, pc, inShutdown, ret,
                   mark, minted, shutdownCalls>>

\* JobLogger.set_final_data: self._final_data.update(data)
SetFinalData(s, k, v) ==
    /\ pc = "idle"
    /\ sc[s].phase \in {"open", "exited"}
    /\ sc' = [sc EXCEPT ![s].final = Merge([x \in {k} |-> v], @)]
    /\ UNCHANGED <<config, peers, pipeline, calls, heart, pc, inShutdown, ret, mark, minted,
                   shutdownCalls>>

\* the parameter names job_completed and log bind themselves
ReservedCompleted == {"job_id", "duration_ms", "trace_id", "event", "msg", "status"}

\* job_completed(..., **self._final_data): a repeated keyword raises TypeError
CompletedRaises(final) == DOMAIN final \cap ReservedCompleted # {}

JobCompletedRecord_SharedFinal(s, duration_ms) ==
    LET final == sc[1].final
        kwargs == [k \in DOMAIN final \ {"level"} |-> final[k]]
    IN LogRecord("job_completed", "Job completed", "success", sc[s].job_id,
                 sc[s].trace_id,
                 IF "level" \in DOMAIN final THEN final["level"] ELSE INFO,
                 Merge(kwargs, [duration_ms |-> duration_ms]), "caller", s)

\* job_completed: the completion record
JobCompletedRecord(s, duration_ms) ==
    LET final == sc[s].final
        kwargs == [k \in DOMAIN final \ {"level"} |-> final[k]]
    IN LogRecord("job_completed", "Job completed", "success", sc[s].job_id,
                 sc[s].trace_id,
                 IF "level" \in DOMAIN final THEN final["level"] ELSE INFO,
                 Merge(kwargs, [duration_ms |-> duration_ms]), "caller", s)

JobFailedRecord_WithFinal(s, err, duration_ms) ==
    LogRecord("job_failed", err.msg, "failed", sc[s].job_id, sc[s].trace_id, ERROR,
              Merge(sc[s].final, [error_type |-> err.type, duration_ms |-> duration_ms]),
              "caller", s)

\* job_failed: the failure record
JobFailedRecord(s, err, duration_ms) ==
    LogRecord("job_failed", err.msg, "failed", sc[s].job_id, sc[s].trace_id, ERROR,
              [error_type |-> err.type, duration_ms |-> duration_ms], "caller", s)

ExitPropagates_Suppressed(err) == "none"

\* __exit__ returns False: the exception of the body is not suppressed
ExitPropagates(err) == err.type

\* JobLogger.__exit__
Exit(s, err, elapsed) ==
    /\ pc = "idle"
    /\ CallsLeft
    /\ sc[s].phase = "open"
    /\ LET duration_ms == elapsed * 1000
           out == IF err # NoError THEN ExitPropagates(err)
                  ELSE IF CompletedRaises(sc[s].final) THEN "TypeError"
                  ELSE "none"
       IN /\ IF err # NoError
             THEN Log(JobFailedRecord(s, err, duration_ms))
             ELSE IF CompletedRaises(sc[s].final)
                  THEN UNCHANGED <<calls, queue, written>>
                  ELSE Log(JobCompletedRecord(s, duration_ms))
          /\ sc' = [sc EXCEPT ![s].phase = "exited", ![s].err = err, ![s].out = out,
                              ![s].last = Len(calls')]
    /\ UNCHANGED <<config, peers, consumerPc, listenerThread, heart, pc, inShutdown, ret,
                   mark, minted, shutdownCalls>>

\* ================================================================ claims
AtOrAbove(c) == c.level >= minLevel
PassedCalls == SelectSeq(calls, AtOrAbove)
QueuedRecords == SelectSeq(queue, LAMBDA r : r # Sentinel)
SinkLines(i) ==
    LET w == SelectSeq(written, LAMBDA x : x.sink = i /\ x.ok)
    IN [k \in 1..Len(w) |-> w[k].rec]
InSeq(x, seq) == \E k \in 1..Len(seq) : seq[k] = x
Sinks == 1..nSinks
\* the calls of the scope's current (or last) entry, up to its exit
ScopeCalls(s) ==
    SelectSeq(calls, LAMBDA c : /\ c.scope = s
                                /\ c.n >= sc[s].first
                                /\ sc[s].phase = "exited" => c.n <= sc[s].last)
IsTerminal(c) == c.fields["event"] \in {"job_completed", "job_failed"}
IsStart(c) == c.msg = "Job started" /\ c.fields["status"] = "running"
TraceOf(c) == IF "trace_id" \in DOMAIN c.fields THEN c.fields["trace_id"] ELSE None
SameIds(c, d) == c.fields["job_id"] = d.fields["job_id"] /\ TraceOf(c) = TraceOf(d)

\* C1: every scope that was entered and left, normally or with an error, has
\* emitted exactly one terminal record (job_completed or job_failed), and that
\* record is the last one the scope emitted.
C1_ExactlyOneTerminal ==
    \A s \in Scopes :
        sc[s].phase = "exited" =>
            LET cs == ScopeCalls(s)
            IN /\ Len(SelectSeq(cs, IsTerminal)) = 1
               /\ IsTerminal(cs[Len(cs)])

\* C2: a scope whose body ended without error has emitted exactly the start
\* record (status running), the records of its body and one job_completed
\* record (status success): body count + 2 records, the completion record
\* carrying the job_id and trace_id of the start record.
C2_SuccessBracket ==
    \A s \in Scopes :
        (sc[s].phase = "exited" /\ sc[s].err = NoError) =>
            LET cs == ScopeCalls(s)
                last == cs[Len(cs)]
            IN /\ Len(cs) = sc[s].body + 2
               /\ IsStart(cs[1])
               /\ last.fields["event"] = "job_completed"
               /\ last.fields["status"] = "success"
               /\ SameIds(last, cs[1])
               /\ \A k \in 2..(Len(cs) - 1) : ~IsTerminal(cs[k]) /\ ~IsStart(cs[k])

\* C3: a scope whose body raised an error has as its last record a job_failed
\* record with status failed, level ERROR, the error's type name and message
\* and the ids of the start record, and the error leaves the scope unsuppressed.
C3_FailureRecorded ==
    \A s \in Scopes :
        (sc[s].phase = "exited" /\ sc[s].err # NoError) =>
            LET cs == ScopeCalls(s)
                last == cs[Len(cs)]
            IN /\ Len(cs) >= 2
               /\ IsStart(cs[1])
               /\ last.fields["event"] = "job_failed"
               /\ last.fields["status"] = "failed"
               /\ last.level = ERROR
               /\ last.fields["error_type"] = sc[s].err.type
               /\ last.msg = sc[s].err.msg
               /\ SameIds(last, cs[1])
               /\ Len(SelectSeq(cs, IsTerminal)) = 1
               /\ sc[s].out = sc[s].err.type

C3_Witness ==
    \E s \in Scopes :
        /\ sc[s].phase = "exited"
        /\ sc[s].err # NoError
        /\ sc[s].body >= 1

Paired(i) ==
    \E j \in 1..(i - 1) :
        /\ written[j].sink = written[i].sink
        /\ IsStart(written[j].rec)
        /\ written[j].rec.scope = written[i].rec.scope
        /\ SameIds(written[j].rec, written[i].rec)

\* C4 as stated: under every configuration, every terminal record that reached
\* a sink is preceded in that sink by a start record with the same ids.
C4_AlwaysPaired ==
    \A i \in 1..Len(written) : IsTerminal(written[i].rec) => Paired(i)

\* C4: when the minimum level is not above the level of the start record (INFO),
\* every terminal record that reached a sink is preceded in that sink by a
\* start record with the same job_id and trace_id.
C4_PairedWhenStartPasses ==
    (minLevel <= INFO) => C4_AlwaysPaired

C4_Witness ==
    /\ minLevel <= INFO
    /\ \E i \in 1..Len(written) : IsTerminal(written[i].rec)

ShutdownReturned ==
    /\ pc = "idle"
    /\ ret.op = "shutdown"
    /\ ret.exc = "none"
    /\ mode = "async"

\* a record this call of shutdown has to have flushed: enqueued before the
\* call, or the heartbeat_stopped record of the call itself
DueAtShutdown(c) ==
    /\ AtOrAbove(c)
    /\ \/ c.n <= mark
       \/ c.src = "caller" /\ c.fields["event"] = "heartbeat_stopped"

\* C5 as stated: whenever a call of shutdown returns in asynchronous mode,
\* every record enqueued before the call, and the heartbeat_stopped record of
\* the call, has been written to the sink.
C5_EveryShutdownDrains ==
    ShutdownReturned =>
        \A k \in 1..Len(calls) : DueAtShutdown(calls[k]) => InSeq(calls[k], SinkLines(1))

\* C5: when the first call of shutdown returns in asynchronous mode, every
\* record enqueued before the call, and the heartbeat_stopped record of the
\* call, has been written to the sink.
C5_FirstShutdownDrains ==
    (ShutdownReturned /\ shutdownCalls = 1) =>
        \A k \in 1..Len(calls) : DueAtShutdown(calls[k]) => InSeq(calls[k], SinkLines(1))

C5_Witness ==
    /\ ShutdownReturned
    /\ shutdownCalls = 1
    /\ \E k \in 1..Len(calls) : AtOrAbove(calls[k]) /\ calls[k].n <= mark
    /\ \E k \in 1..Len(calls) :
           /\ AtOrAbove(calls[k])
           /\ calls[k].n > mark
           /\ calls[k].fields["event"] = "heartbeat_stopped"


\* a step of the caller inside shutdown
ShutdownStep ==
    \/ ShutdownCall
    \/ inShutdown /\ StopLog
    \/ inShutdown /\ \E timedOut \in BOOLEAN : StopJoin(timedOut)
    \/ ListenerStop
    \/ ListenerJoin

\* C6: a call of shutdown that directly follows a call of shutdown changes
\* nothing (no record, no queue entry, no thread or scheduler state) and
\* returns without raising, in asynchronous and in synchronous mode.
C6_SecondShutdownNoOp ==
    [][(ret.op = "shutdown" /\ ret.exc = "none" /\ ShutdownStep) =>
          /\ UNCHANGED <<pipeline, calls, heart>>
          /\ (pc' = "idle" => ret'.exc = "none")]_vars

\* C7: a call whose level is below the minimum level is neither enqueued nor
\* written to any sink; a call at or above the minimum level is enqueued or
\* written (to every sink in synchronous mode).
C7_LevelFilter ==
    \A k \in 1..Len(calls) :
        LET c == calls[k]
        IN IF c.level < minLevel
           THEN /\ ~InSeq(c, queue)
                /\ \A i \in Sinks : ~InSeq(c, SinkLines(i))
           ELSE IF mode = "async"
                THEN InSeq(c, queue) \/ InSeq(c, SinkLines(1))
                ELSE \A i \in Sinks : InSeq(c, SinkLines(i))

C7_Witness ==
    /\ \E k \in 1..Len(calls) : calls[k].level < minLevel
    /\ \E k \in 1..Len(calls) : calls[k].level = minLevel /\ InSeq(calls[k], SinkLines(1))
    /\ \E k \in 1..Len(calls) : calls[k].level > minLevel /\ InSeq(calls[k], queue)

\* C8: in asynchronous mode the sink holds, in order and once each, a prefix of
\* the enqueued records and the queue holds the rest; a record is written to
\* the attached sinks in attachment order, once per sink, and in synchronous
\* mode to every one of them.
C8_FifoDelivery ==
    /\ (mode = "async") => (SinkLines(1) \o QueuedRecords = PassedCalls)
    /\ \A k, l \in 1..Len(written) :
           (k < l /\ written[k].rec = written[l].rec) =>
               written[k].sink < written[l].sink
    /\ (mode = "sync") =>
           \A k \in 1..Len(PassedCalls), i \in Sinks : InSeq(PassedCalls[k], SinkLines(i))

C8_Witness ==
    /\ mode = "async"
    /\ Len(SinkLines(1)) >= 2
    /\ QueuedRecords # <<>>

\* C9: force_flush returns without raising; in synchronous mode it changes
\* nothing, and in asynchronous mode every record queued at the call has been
\* written when it returns.
C9_ForceFlush ==
    [][ForceFlush =>
          /\ ret'.exc = "none"
          /\ (mode = "sync") => UNCHANGED <<pipeline, calls, heart, sc>>
          /\ (mode = "async") => (queue' = <<>>)]_vars

Running == hbThread # None /\ IsAlive(hbThread)

\* C10: at most one heartbeat thread is alive in every reachable state; a start
\* while Running spawns no thread and logs nothing; a start while Idle spawns
\* one thread and logs one heartbeat_started info record.
C10_SingleHeartbeatTask ==
    [][/\ Cardinality({t \in Tasks : taskPc'[t] \notin {"unborn", "done"}}) <= 1
       /\ (StartCall /\ Running) => UNCHANGED <<heart, calls, pc>>
       /\ (StartCall /\ ~Running) =>
              /\ Cardinality({t \in Tasks : taskPc[t] = "unborn" /\ taskPc'[t] # "unborn"}) = 1
              /\ pc' = "start_log"
       /\ StartLog =>
              /\ Len(calls') = Len(calls) + 1
              /\ calls'[Len(calls')].fields["event"] = "heartbeat_started"
              /\ calls'[Len(calls')].level = INFO]_vars


\* C11: a stop while Running sets the stop event and logs one heartbeat_stopped
\* record, and when it returns the thread reference is cleared and the thread it
\* referred to is no longer alive; a stop while Idle changes nothing, logs
\* nothing and returns without raising.
C11_StopIdempotent ==
    [][/\ (StopCall /\ Running) => (hbEvent \in setEvents' /\ pc' = "stop_log")
       /\ (StopCall /\ ~Running) =>
              /\ UNCHANGED <<pipeline, calls, heart>>
              /\ ret' = Returned("stop", "none")
       /\ (StopLog /\ ~inShutdown) =>
              /\ Len(calls') = Len(calls) + 1
              /\ calls'[Len(calls')].fields["event"] = "heartbeat_stopped"
       /\ (~inShutdown /\ \E timedOut \in BOOLEAN : StopJoin(timedOut)) =>
              /\ hbThread' = None
              /\ ~IsAlive(hbThread)
              /\ ret' = Returned("stop", "none")]_vars

\* the scheduler was stopped and has not been started again
Stopped == hbThread = None /\ Spawned # {}

\* C12: once stop_heartbeat_thread has returned on a Running scheduler, no
\* heartbeat thread emits a record until the scheduler is started again.
C12_SilentAfterStop ==
    [][Stopped => \A t \in Tasks : ~TaskEmit(t)]_vars


\* C13: a heartbeat thread whose wait ends with the event unset emits exactly
\* one record (event heartbeat, message "Worker alive", status healthy, level
\* INFO), one whose wait ends with the event set ends without emitting, and a
\* thread waiting on an unset event goes on to emit as long as it is not
\* cancelled (and calls are left within the bound).
C13_PeriodicHeartbeat ==
    /\ [][\A t \in Tasks :
            /\ TaskWait(t) =>
                   /\ (taskEv[t] \notin setEvents) => taskPc'[t] = "emit"
                   /\ (taskEv[t] \in setEvents) =>
                          (taskPc'[t] = "done" /\ calls' = calls)
            /\ TaskEmit(t) =>
                   /\ Len(calls') = Len(calls) + 1
                   /\ LET c == calls'[Len(calls')]
                      IN /\ c.fields["event"] = "heartbeat"
                         /\ c.msg = "Worker alive"
                         /\ c.fields["status"] = "healthy"
                         /\ c.level = INFO
                         /\ c.src = "task"]_vars
    /\ \A t \in Tasks :
           (taskPc[t] = "wait" /\ taskEv[t] \notin setEvents /\ CallsLeft)
               ~> (taskPc[t] = "eval" \/ taskEv[t] \in setEvents \/ ~CallsLeft)

C13_Witness ==
    /\ Len(SelectSeq(calls, LAMBDA c : c.src = "task")) >= 2
    /\ \E t \in Tasks : taskPc[t] = "wait" /\ taskEv[t] \notin setEvents


\* the record a step has handed to self.logger.log
NewCall == calls'[Len(calls')]

\* the record carries the ids stored on the scope
CarriesIds(c, s) ==
    /\ c.fields["job_id"] = sc[s].job_id
    /\ "trace_id" \in DOMAIN c.fields
    /\ c.fields["trace_id"] = sc[s].trace_id

\* C14: while a scope is open its job_id and trace_id do not change, and every
\* record emitted through progress, info, warning or debug while it is open
\* carries exactly the job_id and the trace_id stored on the scope.
C14_IdsCarried ==
    [][\A s \in Scopes :
          /\ (sc[s].phase = "open" /\ sc'[s].phase = "open") =>
                 /\ sc'[s].job_id = sc[s].job_id
                 /\ sc'[s].trace_id = sc[s].trace_id
          /\ (sc[s].phase = "open" /\ \E kind \in ScopeKinds : ScopeLog(s, kind)) =>
                 /\ Len(calls') = Len(calls) + 1
                 /\ CarriesIds(NewCall, s)]_vars

\* ids generated by job_started (never a supplied one)
IsMinted(x) == x \in 1..minted

\* C15: an entered scope stores the supplied job_id and trace_id unchanged and
\* generated ones only where none was supplied, and the start record, every
\* record emitted through the scope and the terminal record carry the stored
\* job_id and trace_id.
C15_SuppliedIdsHonoured ==
    \A s \in Scopes :
        sc[s].phase \in {"open", "exited"} =>
            /\ IF sc[s].initial[1] = None THEN IsMinted(sc[s].job_id)
               ELSE sc[s].job_id = sc[s].initial[1]
            /\ IF sc[s].initial[2] = None THEN IsMinted(sc[s].trace_id)
               ELSE sc[s].trace_id = sc[s].initial[2]
            /\ \A k \in 1..Len(ScopeCalls(s)) : CarriesIds(ScopeCalls(s)[k], s)


\* no entry of the final data is among the fields of the record
FreeOfFinal(c, final) ==
    \A k \in DOMAIN final : k \notin DOMAIN c.fields \/ c.fields[k] # final[k]

\* C16: set_final_data on an open scope logs nothing and sets its key, the
\* latest value winning; the job_completed record of the scope carries every
\* entry of the accumulated data; the start record, the body records and a
\* job_failed record carry none of it.
C16_FinalDataOnlyOnSuccess ==
    [][\A s \in Scopes :
          /\ \A item \in FinalItems :
                 (sc[s].phase = "open" /\ SetFinalData(s, item[1], item[2])) =>
                     /\ calls' = calls
                     /\ sc'[s].final[item[1]] = item[2]
                     /\ \A k \in DOMAIN sc[s].final \ {item[1]} :
                            sc'[s].final[k] = sc[s].final[k]
          /\ (sc[s].phase = "open" /\ sc'[s].phase = "exited" /\ calls' # calls) =>
                 IF sc'[s].err = NoError
                 THEN /\ NewCall.fields["event"] = "job_completed"
                      /\ \A k \in DOMAIN sc[s].final :
                             /\ k \in DOMAIN NewCall.fields
                             /\ NewCall.fields[k] = sc[s].final[k]
                 ELSE /\ NewCall.fields["event"] = "job_failed"
                      /\ FreeOfFinal(NewCall, sc[s].final)
          /\ (sc[s].phase = "open" /\ sc'[s].phase = "open" /\ calls' # calls
              /\ NewCall.scope = s) =>
                 FreeOfFinal(NewCall, sc[s].final)
          /\ (sc[s].phase # "open" /\ sc'[s].phase = "open") =>
                 FreeOfFinal(NewCall, sc'[s].final)]_vars

C16_Witness ==
    \E s \in Scopes :
        /\ sc[s].phase = "exited"
        /\ sc[s].err = NoError
        /\ sc[s].body >= 1
        /\ calls # <<>>
        /\ LET c == calls[Len(calls)]
           IN /\ c.scope = s
              /\ c.fields["event"] = "job_completed"
              /\ "records_processed" \in DOMAIN c.fields
              /\ c.fields["records_processed"] = 200


\* C17: set_final_data on a scope that has been left changes nothing: not the
\* scope's state (so nothing a later entry of the same object would put on its
\* terminal record) and no record.
C17_LateFinalDataIgnored ==
    [][\A s \in Scopes, item \in FinalItems :
          (sc[s].phase = "exited" /\ SetFinalData(s, item[1], item[2])) =>
              UNCHANGED <<sc, calls, written>>]_vars

\* C18: progress, info, warning and debug on a scope that has been left hand
\* no record to the logger, so no record with the scope's job_id follows its
\* terminal record.
C18_LateCallsAreNoOps ==
    [][\A s \in Scopes, kind \in ScopeKinds :
          (sc[s].phase = "exited" /\ ScopeLog(s, kind)) =>
              UNCHANGED <<calls, written, queue>>]_vars


ReservedFields == {"service", "worker_id", "job_id", "event", "status", "trace_id"}

\* C19: a call of info, warning, error or debug with keyword fields returns
\* without raising and hands the logger a record in which every keyword field
\* of the caller appears with its key and value, except a field named like a
\* reserved field, for which the record keeps the reserved value (the identity
\* of the logger, the event and the status of the method).
C19_FieldsRoundTrip ==
    [][\A level \in Levels, kwargs \in CallerFields :
          LogCall(level, kwargs) =>
              /\ ret'.exc = "none"
              /\ Len(calls') = Len(calls) + 1
              /\ \A k \in DOMAIN kwargs \ ReservedFields :
                     k \in DOMAIN NewCall.fields /\ NewCall.fields[k] = kwargs[k]
              /\ NewCall.fields["service"] = service_name
              /\ NewCall.fields["worker_id"] = worker_id
              /\ NewCall.fields["event"] = "user_event"
              /\ NewCall.fields["status"] = LevelStatus(level)]_vars


\* every write the handler of sink i was asked for, failed ones included
Attempted(i) ==
    LET w == SelectSeq(written, LAMBDA x : x.sink = i)
    IN [k \in 1..Len(w) |-> w[k].rec]

\* C21: a logger constructed with the handlers argument unset or empty has
\* exactly one sink behind the asynchronous pipeline (a queue and a consumer);
\* one constructed with a non-empty list of handlers is synchronous, with those
\* handlers and neither queue nor consumer.
C21_DefaultPipeline ==
    /\ handlers \in {HandlersNone, 0} =>
           /\ mode = "async"
           /\ nSinks = 1
           /\ consumerPc # "absent"
           /\ listenerThread
    /\ handlers > 0 =>
           /\ mode = "sync"
           /\ nSinks = handlers
           /\ consumerPc = "absent"
           /\ ~listenerThread
           /\ queue = <<>>

\* C22: in synchronous mode, whenever the caller is between two calls, every
\* attached sink holds exactly the calls that passed the level filter, in call
\* order: each call has written its line before it returned.
C22_SyncInline ==
    (mode = "sync") => \A i \in Sinks : SinkLines(i) = PassedCalls

C22_Witness ==
    /\ mode = "sync"
    /\ nSinks = 2
    /\ Len(calls) = 3
    /\ Len(SinkLines(2)) = 2
    /\ ret = Returned("log", "none")

Producers == {"caller", "task"}
By(p, seq) == SelectSeq(seq, LAMBDA r : r.src = p)
IsPrefix(a, b) == Len(a) <= Len(b) /\ a = SubSeq(b, 1, Len(a))
Occurrences(x, seq) == Cardinality({k \in 1..Len(seq) : seq[k] = x})

\* C23: with the caller and the heartbeat threads logging through one
\* asynchronous logger, every record that passed the level filter is either in
\* the sink or still in the queue, exactly once in all, and the sink holds each
\* producer's records in the order in which that producer made its calls.
C23_ProducersExactlyOnceInOrder ==
    (mode = "async") =>
        /\ \A k \in 1..Len(PassedCalls) :
               Occurrences(PassedCalls[k], SinkLines(1) \o QueuedRecords) = 1
        /\ \A k \in 1..Len(SinkLines(1)) : InSeq(SinkLines(1)[k], PassedCalls)
        /\ \A p \in Producers : IsPrefix(By(p, SinkLines(1)), By(p, PassedCalls))

C23_Witness ==
    /\ mode = "async"
    /\ Len(SinkLines(1)) >= 3
    /\ \A p \in Producers : By(p, SinkLines(1)) # <<>>
    /\ Cardinality(AliveTasks) = 2

FinalKeys == {item[1] : item \in FinalItems} \ ReservedCompleted

\* C24: with several scopes open over the same period, every record emitted
\* through a scope carries that scope's job_id and trace_id, the job_id of no
\* other scope, and a job_completed record carries the final data stored on
\* its own scope and nothing else; a job_failed record carries none.
C24_ScopesIndependent ==
    \A k \in 1..Len(calls) :
        LET c == calls[k]
            s == c.scope
        IN s # 0 =>
            /\ c.fields["job_id"] = sc[s].job_id
            /\ TraceOf(c) = sc[s].trace_id
            /\ \A s2 \in Scopes \ {s} : c.fields["job_id"] # sc[s2].job_id
            /\ \A key \in FinalKeys :
                   IF c.fields["event"] = "job_completed" /\ key \in DOMAIN sc[s].final
                   THEN key \in DOMAIN c.fields /\ c.fields[key] = sc[s].final[key]
                   ELSE key \notin DOMAIN c.fields

C24_Witness ==
    \E s, s2 \in Scopes :
        /\ sc[s].phase = "exited"
        /\ sc[s].first > sc[s2].first
        /\ sc[s].out = "none"
        /\ sc[s2].phase = "open"
        /\ "records_processed" \in DOMAIN sc[s].final
        /\ "records_processed" \in DOMAIN sc[s2].final
        /\ sc[s].final # sc[s2].final
        /\ sc[s].trace_id # sc[s2].trace_id

\* C25: every call of start_heartbeat_thread, stop_heartbeat_thread or shutdown
\* that has begun returns, also when the consumer thread or a heartbeat thread
\* takes no further step.
C25_CallsReturn == (pc # "idle") ~> (pc = "idle")

\* what holds: stop_heartbeat_thread and the stop_heartbeat_thread part of
\* shutdown are left after the join, which waits one second at most
C25_StopReturns == (pc \in {"stop_log", "stop_join"}) ~> (pc \in {"idle", "sd_stop"})

IsDbQuery(c) == c.fields["event"] = "db_query"

\* C27: a db_query record has status "slow" and level WARNING exactly when a
\* duration was supplied and is greater than 1000, and status "ok" and level
\* DEBUG otherwise, so that "slow" and WARNING always go together.
C27_SlowQueryThreshold ==
    \A k \in 1..Len(calls) :
        LET c == calls[k]
            d == c.fields["duration_ms"]
        IN IsDbQuery(c) =>
            IF d # NoDuration /\ d > 1000
            THEN c.fields["status"] = "slow" /\ c.level = WARNING
            ELSE c.fields["status"] = "ok" /\ c.level = DEBUG

C27_Witness ==
    /\ Len(calls) = 3
    /\ calls[1].fields["duration_ms"] = 1000 /\ IsDbQuery(calls[1])
    /\ calls[2].fields["duration_ms"] = 1001
    /\ calls[3].fields["duration_ms"] = NoDuration
    /\ ret = Returned("db_query", "none")

\* C28: the logger's service name is the constructor argument when one was
\* given, else the environment variable SERVICE when it is set, else
\* "my-service"; its worker id is the argument, else POD_NAME, else the host
\* name; both stay as resolved and are the service and worker_id of every
\* record emitted.
C28_IdentityResolved ==
    /\ service_name = (IF given.service_name # NoString THEN given.service_name
                       ELSE IF given.SERVICE # NoString THEN given.SERVICE
                       ELSE "my-service")
    /\ worker_id = (IF given.worker_id # NoString THEN given.worker_id
                    ELSE IF given.POD_NAME # NoString THEN given.POD_NAME
                    ELSE Hostname)
    /\ \A k \in 1..Len(calls) :
           /\ calls[k].fields["service"] = service_name
           /\ calls[k].fields["worker_id"] = worker_id

\* what holds of the resolution: an argument that is a non-empty string wins,
\* and the records of calls that pass no service or worker_id keyword carry
\* the resolved names
C28_ResolvedUnlessOverridden ==
    /\ service_name = (IF given.service_name \notin {NoString, ""}
                       THEN given.service_name
                       ELSE IF given.SERVICE # NoString THEN given.SERVICE
                       ELSE "my-service")
    /\ worker_id = (IF given.worker_id # NoString THEN given.worker_id
                    ELSE IF given.POD_NAME # NoString THEN given.POD_NAME
                    ELSE Hostname)
    /\ \A k \in 1..Len(calls) :
           \/ calls[k].fields["service"] = service_name
           \/ calls[k].fields["service"] = "other"

StartedCalls ==
    Len(SelectSeq(calls, LAMBDA c : c.fields["event"] = "heartbeat_started"))

\* C29: when the heartbeat thread of the t-th run emits a heartbeat, the
\* heartbeat_started record of that run has already been emitted: t
\* heartbeat_started records precede the heartbeat.
C29_StartedBeforeFirstBeat ==
    [][\A t \in Tasks : TaskEmit(t) => StartedCalls >= t]_vars

\* C30: a heartbeat thread whose stop event has been set emits nothing but the
\* heartbeat it was about to emit when the event was set: a heartbeat it emits
\* from then on follows a wait on its own event, one that ended before the
\* set. (The t-th thread is started with the t-th event.)
C30_CancelledTaskStops ==
    [][\A t \in Tasks : (TaskEmit(t) /\ t \in setEvents) => taskEv[t] = t]_vars

AllPeersDone == \A p \in Peers : peers[p].pc = "done"
StoppedCalls ==
    Len(SelectSeq(calls, LAMBDA c : c.fields["event"] = "heartbeat_stopped"))

\* C31: when two threads have called start_heartbeat_thread on a logger that
\* was idle and both calls are over, exactly one heartbeat thread is alive and
\* exactly one heartbeat_started record has been emitted.
C31_ConcurrentStartOnce ==
    AllPeersDone => (Cardinality(AliveTasks) = 1 /\ StartedCalls = 1)

\* C32: when two threads have called stop_heartbeat_thread on a logger whose
\* heartbeat was running and both calls are over, neither call raised, exactly
\* one heartbeat_stopped record has been emitted and the logger holds no
\* heartbeat thread.
C32_ConcurrentStopOnce ==
    (AllPeersDone /\ Cardinality(Spawned) = 1 /\ pc = "idle") =>
        /\ \A p \in Peers : peers[p].exc = "none"
        /\ StoppedCalls = 1
        /\ hbThread = None

InsideShutdown ==
    \/ pc \in {"sd_stop", "sd_join"}
    \/ inShutdown /\ pc \in {"stop_log", "stop_join"}
AfterShutdown == shutdownCalls >= 1 /\ (shutdownCalls >= 2 \/ ~InsideShutdown)

\* C33: in asynchronous mode, from the return of the first shutdown on, no
\* step writes to the sink and the consumer stays ended, and every call that
\* logs (a plain call, start_heartbeat_thread, the methods and the exit of a
\* job scope) returns without raising.
C33_NoWriteAfterShutdown ==
    [][(mode = "async" /\ AfterShutdown) =>
          /\ written' = written
          /\ consumerPc = "done" /\ consumerPc' = "done"
          /\ (calls' # calls) =>
                 /\ ret' = ret \/ ret'.exc = "none"
                 /\ \A s \in Scopes : sc'[s].out = "none"]_vars

C33_Witness ==
    /\ mode = "async"
    /\ AfterShutdown
    /\ written # <<>>
    /\ \E k \in 1..Len(queue) :
           /\ queue[k] # Sentinel
           /\ queue[k].n > mark
           /\ queue[k].fields["event"] = "heartbeat_started"
    /\ \E k \in 1..Len(queue) :
           /\ queue[k] # Sentinel
           /\ queue[k].n > mark
           /\ queue[k].scope # 0

\* C34: a scope whose body ended without error, whatever final data it stored,
\* is left without an exception and its last record is a job_completed record
\* with status success, level INFO, the scope's job_id and trace_id and the
\* measured duration.
C34_CompletionWithAnyFinalData ==
    \A s \in Scopes :
        (sc[s].phase = "exited" /\ sc[s].err = NoError) =>
            /\ sc[s].out = "none"
            /\ LET cs == ScopeCalls(s)
                   last == cs[Len(cs)]
               IN /\ last.fields["event"] = "job_completed"
                  /\ last.fields["status"] = "success"
                  /\ last.level = INFO
                  /\ last.fields["job_id"] = sc[s].job_id
                  /\ TraceOf(last) = sc[s].trace_id
                  /\ \E elapsed \in Elapsed : last.fields["duration_ms"] = elapsed * 1000

\* C26: with the default asynchronous pipeline a log call is always possible
\* for an idle caller, whatever the queue holds and wherever the consumer is,
\* and it is over in one step of the caller: the record that passed the filter
\* is at the end of the queue and no sink was written by the call.
C26_LogNeverWaits ==
    /\ []((mode = "async" /\ pc = "idle" /\ CallsLeft) =>
              \A level \in Levels : ENABLED LogCall(level, EmptyMap))
    /\ [][\A level \in Levels :
              (mode = "async" /\ LogCall(level, EmptyMap)) =>
                  /\ ret' = Returned("log", "none")
                  /\ queue' = (IF IsEnabledFor(level) THEN Append(queue, NewCall)
                                                     ELSE queue)
                  /\ written' = written
                  /\ consumerPc' = consumerPc]_vars

C26_Witness ==
    /\ mode = "async"
    /\ Len(queue) = MaxCalls
    /\ written = <<>>
    /\ consumerPc = "running"
    /\ ret = Returned("log", "none")


\* C20: a failed write does not end the consumer, the records queued behind it
\* are still handed to the sink in order, and a log call returns without raising
\* whether or not a write fails, in asynchronous and in synchronous mode.
C20_SinkFailureContained ==
    /\ [][/\ ConsumerStep => (consumerPc' = "running")
          /\ (\E level \in Levels : LogCall(level, EmptyMap)) =>
                 ret' = Returned("log", "none")]_vars
    /\ [](mode = "async" => Attempted(1) \o QueuedRecords = PassedCalls)
    /\ [](mode = "sync" =>
             \A k \in 1..Len(PassedCalls), i \in Sinks :
                 InSeq(PassedCalls[k], Attempted(i)))


Next ==
    \/ \E level \in Levels : LogCall(level, EmptyMap)
    \/ ConsumerStep
    \/ \E t \in Tasks : TaskEval(t)
    \/ \E t \in Tasks : TaskWait(t)
    \/ \E t \in Tasks : TaskEmit(t)
    \/ StartCall
    \/ StartLog
    \/ StopCall
    \/ ShutdownCall
    \/ StopLog
    \/ \E timedOut \in BOOLEAN : StopJoin(timedOut)
    \/ ListenerStop
    \/ ListenerJoin
    \/ ForceFlush

\* the construction of a logger whose level is INFO (the default) or WARNING and
\* whose sinks take every write
InitLogger ==
    /\ Init
    /\ Named
    /\ OneScope
    /\ handlers # 0
    /\ sinkKind = "healthy"
    /\ minLevel \in {INFO, WARNING}
    /\ \A s \in Scopes : sc[s].initial = <<None, None>>

Spec == InitLogger /\ [][Next]_vars
\* the logger with job scopes, each used by one with statement: entered once,
\* and not touched after the statement has been left
NextJob ==
    \/ ConsumerStep
    \/ \E s \in Scopes : sc[s].phase = "new" /\ Enter(s)
    \/ \E s \in Scopes, kind \in ScopeKinds : sc[s].phase = "open" /\ ScopeLog(s, kind)
    \/ \E s \in Scopes, item \in FinalItems :
           sc[s].phase = "open" /\ SetFinalData(s, item[1], item[2])
    \/ \E s \in Scopes, err \in Errors \cup {NoError}, elapsed \in Elapsed :
           Exit(s, err, elapsed)

\* the construction of a logger with one handler that is not shut down
InitJob ==
    /\ Init
    /\ Named
    /\ OneScope
    /\ stopGuarded
    /\ nSinks = 1
    /\ minLevel \in {INFO, WARNING}
    /\ sinkKind = "healthy"

SpecJob == InitJob /\ [][NextJob]_vars

\* job scopes whose object is kept and used after the with statement
NextReuse ==
    \/ \E s \in Scopes : Enter(s)
    \/ \E s \in Scopes, kind \in ScopeKinds : ScopeLog(s, kind)
    \/ \E s \in Scopes, item \in FinalItems : SetFinalData(s, item[1], item[2])
    \/ \E s \in Scopes, err \in Errors \cup {NoError}, elapsed \in Elapsed :
           Exit(s, err, elapsed)

\* a synchronous logger at the default level, the scopes minting their ids
InitReuse ==
    /\ Init
    /\ Named
    /\ OneScope
    /\ sinkKind = "healthy"
    /\ mode = "sync"
    /\ nSinks = 1
    /\ minLevel = INFO
    /\ \A s \in Scopes : sc[s].initial = <<None, None>>

SpecReuse == InitReuse /\ [][NextReuse]_vars

\* callers that pass keyword fields of their own
NextFields ==
    \/ \E level \in Levels, kwargs \in CallerFields : LogCall(level, kwargs)
    \/ ConsumerStep

\* a logger with one handler and no job scope in use
InitFields == InitJob /\ \A s \in Scopes : sc[s].initial = <<None, None>>

SpecFields == InitFields /\ [][NextFields]_vars

\* callers and the consumer over sinks whose writes may fail
NextSink ==
    \/ \E level \in {INFO, ERROR} : LogCall(level, EmptyMap)
    \/ ConsumerStep

\* a logger at the default level whose sinks are not healthy
InitSink ==
    /\ Init
    /\ Named
    /\ OneScope
    /\ handlers # 0
    /\ stopGuarded
    /\ minLevel = INFO
    /\ sinkKind # "healthy"
    /\ \A s \in Scopes : sc[s].initial = <<None, None>>

SpecSink == InitSink /\ [][NextSink]_vars

\* the heartbeat scheduler alone, its threads being scheduled fairly
NextBeat ==
    \/ \E t \in Tasks : TaskEval(t)
    \/ \E t \in Tasks : TaskWait(t)
    \/ \E t \in Tasks : TaskEmit(t)
    \/ StartCall
    \/ StartLog
    \/ StopCall
    \/ StopLog
    \/ \E timedOut \in BOOLEAN : StopJoin(timedOut)
    \/ ConsumerStep

\* a started thread runs: it is a daemon thread of a live process
TaskFairness ==
    \A t \in Tasks :
        /\ WF_vars(TaskEval(t))
        /\ WF_vars(TaskWait(t))
        /\ WF_vars(TaskEmit(t))

SpecBeat == InitLogger /\ [][NextBeat]_vars /\ TaskFairness

\* one caller over every way of constructing the logger
NextSetup ==
    \/ \E level \in Levels : LogCall(level, EmptyMap)
    \/ ConsumerStep

\* every handlers argument, the level and the sinks being the default ones
InitSetup ==
    /\ Init
    /\ Named
    /\ OneScope
    /\ stopGuarded
    /\ minLevel = INFO
    /\ sinkKind = "healthy"
    /\ \A s \in Scopes : sc[s].initial = <<None, None>>

SpecSetup == InitSetup /\ [][NextSetup]_vars

\* a caller, with and without keyword fields of its own
NextIdentity ==
    \/ \E level \in {INFO, ERROR},
          kwargs \in {EmptyMap, [component |-> "api"], [service |-> "other"]} :
           LogCall(level, kwargs)
    \/ ConsumerStep

\* every combination of constructor arguments and environment
InitIdentity ==
    /\ Init
    /\ OneScope
    /\ handlers \in {HandlersNone, 1}
    /\ stopGuarded
    /\ minLevel = INFO
    /\ sinkKind = "healthy"
    /\ sc[1].initial = <<None, None>>

SpecIdentity == InitIdentity /\ [][NextIdentity]_vars

\* a caller of the db_query helper
NextContrib ==
    \/ \E duration_ms \in DurationInputs : DbQuery(duration_ms)
    \/ ConsumerStep

\* a logger with one sink, at DEBUG or at the default level
InitContrib ==
    /\ Init
    /\ Named
    /\ OneScope
    /\ handlers \in {HandlersNone, 1}
    /\ stopGuarded
    /\ minLevel \in {DEBUG, INFO}
    /\ sinkKind = "healthy"
    /\ sc[1].initial = <<None, None>>

SpecContrib == InitContrib /\ [][NextContrib]_vars

\* starting, stopping and shutting down, with the heartbeat threads and the consumer
NextHalt ==
    \/ \E t \in Tasks : TaskEval(t)
    \/ \E t \in Tasks : TaskWait(t)
    \/ \E t \in Tasks : TaskEmit(t)
    \/ StartCall
    \/ StartLog
    \/ StopCall
    \/ ShutdownCall
    \/ StopLog
    \/ \E timedOut \in BOOLEAN : StopJoin(timedOut)
    \/ ListenerStop
    \/ ListenerJoin
    \/ ConsumerStep

\* a logger at the default level
InitHalt == InitLogger /\ minLevel = INFO

\* the caller's thread goes on with the call it is in whenever its next
\* statement can run
CallerFairness ==
    /\ WF_vars(StartLog)
    /\ WF_vars(StopLog)
    /\ WF_vars(\E timedOut \in BOOLEAN : StopJoin(timedOut))
    /\ WF_vars(ListenerStop)
    /\ WF_vars(ListenerJoin)

\* the caller and the heartbeat threads are scheduled; the consumer is not
\* required to take a step: a handler write may take for ever
SpecHalt == InitHalt /\ [][NextHalt]_vars /\ CallerFairness /\ TaskFairness

\* several JobLogger objects on one synchronous logger, all constructed; their
\* ids are minted, but for the first one, which may be given a trace id; the
\* with statements overlap freely
InitNested ==
    /\ Init
    /\ Named
    /\ handlers = 1
    /\ minLevel = INFO
    /\ sinkKind = "healthy"
    /\ sc[1].initial \in {<<None, None>>, <<None, SuppliedTraceId>>}
    /\ \A s \in Scopes : /\ sc[s].phase = "new"
                         /\ s > 1 => sc[s].initial = <<None, None>>

\* the with statements of the scopes, each entered once
NextNested ==
    \/ \E s \in Scopes : sc[s].phase = "new" /\ Enter(s)
    \/ \E s \in Scopes, kind \in ScopeKinds : sc[s].phase = "open" /\ ScopeLog(s, kind)
    \/ \E s \in Scopes, item \in FinalItems :
           sc[s].phase = "open" /\ SetFinalData(s, item[1], item[2])
    \/ \E s \in Scopes, err \in Errors \cup {NoError}, elapsed \in Elapsed :
           Exit(s, err, elapsed)

SpecNested == InitNested /\ [][NextNested]_vars

\* two threads that call start_heartbeat_thread on a logger nobody has started
NextStartRace ==
    \/ \E p \in Peers : PeerStartGuard(p)
    \/ \E p \in Peers : PeerStartEvent(p)
    \/ \E p \in Peers : PeerStartThread(p)
    \/ \E p \in Peers : PeerStartRun(p)
    \/ \E p \in Peers : PeerStartLog(p)
    \/ \E t \in Tasks : TaskEval(t)
    \/ \E t \in Tasks : TaskWait(t)
    \/ \E t \in Tasks : TaskEmit(t)
    \/ ConsumerStep

SpecStartRace == InitHalt /\ [][NextStartRace]_vars

\* one thread starts the heartbeat; two threads then call stop_heartbeat_thread,
\* each beginning while the heartbeat thread is alive
NextStopRace ==
    \/ StartCall
    \/ StartLog
    \/ \E p \in Peers : StopApplies /\ pc = "idle" /\ PeerStopGuard(p)
    \/ \E p \in Peers : PeerStopSet(p)
    \/ \E p \in Peers : PeerStopLog(p)
    \/ \E p \in Peers, timedOut \in BOOLEAN : PeerStopJoin(p, timedOut)
    \/ \E t \in Tasks : TaskEval(t)
    \/ \E t \in Tasks : TaskWait(t)
    \/ \E t \in Tasks : TaskEmit(t)
    \/ ConsumerStep

SpecStopRace == InitHalt /\ [][NextStopRace]_vars

\* the logger used before, during and after shutdown: plain calls, the
\* heartbeat and a job scope that ends normally
NextAfter ==
    \/ LogCall(INFO, EmptyMap)
    \/ ConsumerStep
    \/ \E t \in Tasks : TaskEval(t)
    \/ \E t \in Tasks : TaskWait(t)
    \/ \E t \in Tasks : TaskEmit(t)
    \/ StartCall
    \/ StartLog
    \/ ShutdownCall
    \/ StopLog
    \/ \E timedOut \in BOOLEAN : StopJoin(timedOut)
    \/ ListenerStop
    \/ ListenerJoin
    \/ \E s \in Scopes : sc[s].phase = "new" /\ Enter(s)
    \/ \E s \in Scopes : sc[s].phase = "open" /\ ScopeLog(s, "info")
    \/ \E s \in Scopes, elapsed \in Elapsed : Exit(s, NoError, elapsed)

SpecAfter == InitHalt /\ [][NextAfter]_vars

\* one with statement whose body stores final data under reserved names
NextFinal ==
    \/ ConsumerStep
    \/ \E s \in Scopes : sc[s].phase = "new" /\ Enter(s)
    \/ \E s \in Scopes, item \in ReservedItems :
           sc[s].phase = "open" /\ SetFinalData(s, item[1], item[2])
    \/ \E s \in Scopes, err \in Errors \cup {NoError}, elapsed \in Elapsed :
           Exit(s, err, elapsed)

SpecFinal == InitFields /\ [][NextFinal]_vars

\* several producers on one logger that is not shut down: the caller and the
\* heartbeat threads of a heartbeat that is started, stopped and started again
NextProducers ==
    \/ \E level \in Levels : LogCall(level, EmptyMap)
    \/ \E t \in Tasks : TaskEval(t)
    \/ \E t \in Tasks : TaskWait(t)
    \/ \E t \in Tasks : TaskEmit(t)
    \/ StartCall
    \/ StartLog
    \/ StopCall
    \/ StopLog
    \/ \E timedOut \in BOOLEAN : StopJoin(timedOut)
    \/ ConsumerStep

SpecProducers == InitHalt /\ [][NextProducers]_vars
====
